---- MODULE Spec2Model ----
(***************************************************************************)
(* Model of google/pylib/validate_configuration.py: the ValidateConfig      *)
(* class (bindings, error list, the verify_* checks and validate()) and the *)
(* __main__ driver.  Python strings are sequences of one-character strings; *)
(* an error message is the format template together with the values that    *)
(* str.format() substitutes into it.                                        *)
(***************************************************************************)
EXTENDS Integers, Sequences, FiniteSets, TLC

\* ------------------------------------------------------------------------
\* Bounds of the model.
MaxCalls == 2       \* top-level calls made on one validator instance
MaxAccounts == 2    \* lines in the service-accounts metadata response

\* ------------------------------------------------------------------------
\* Character classes used by the regular expressions.
Lower == {"a","b","c","d","e","f","g","h","i","j","k","l","m",
          "n","o","p","q","r","s","t","u","v","w","x","y","z"}
Upper == {"A","B","C","D","E","F","G","H","I","J","K","L","M",
          "N","O","P","Q","R","S","T","U","V","W","X","Y","Z"}
Digits == {"0","1","2","3","4","5","6","7","8","9"}

\* [-_\.a-z0-9]
HostChars == Lower \cup Digits \cup {"-", "_", "."}
\* [-_a-zA-Z0-9\+%/]
PathChars == Lower \cup Upper \cup Digits \cup {"-", "_", "+", "%", "/"}
\* [/a-zA-Z0-9]
AwsKeyChars == Lower \cup Upper \cup Digits \cup {"/"}
\* [-_a-zA-Z0-9]
AccountChars == Lower \cup Upper \cup Digits \cup {"-", "_"}
\* [-a-z0-9] and [a-z0-9]
GceBodyChars == Lower \cup Digits \cup {"-"}
GceEndChars == Lower \cup Digits

AllIn(s, lo, hi, class) == \A k \in lo..hi : s[k] \in class

\* Python's "$": the end of the string, or just before a newline that ends it.
AtDollar(s, n) ==
  \/ n = Len(s)
  \/ n = Len(s) - 1 /\ s[Len(s)] = "\n"

\* re.match('^[-_\.a-z0-9]+(:[0-9]+)?(/[-_a-zA-Z0-9\+%/]+)?$', s)
MatchAddress(s) ==
  \E i \in 1..Len(s) :
    /\ AllIn(s, 1, i, HostChars)
    /\ \E j \in i..Len(s) :
         /\ \/ j = i
            \/ j >= i + 2 /\ s[i + 1] = ":" /\ AllIn(s, i + 2, j, Digits)
         /\ \E k \in j..Len(s) :
              /\ \/ k = j
                 \/ k >= j + 2 /\ s[j + 1] = "/" /\ AllIn(s, j + 2, k, PathChars)
              /\ AtDollar(s, k)

\* re.match('^[/a-zA-Z0-9]+$', s)
MatchAwsKey(s) ==
  \E i \in 1..Len(s) : AllIn(s, 1, i, AwsKeyChars) /\ AtDollar(s, i)

\* re.match('^[-_a-zA-Z0-9]+$', s)
MatchAccountName(s) ==
  \E i \in 1..Len(s) : AllIn(s, 1, i, AccountChars) /\ AtDollar(s, i)

\* re.match('^[a-z]([-a-z0-9]{0,61}[a-z0-9])?$', s)
MatchGceName(s) ==
  /\ Len(s) >= 1
  /\ s[1] \in Lower
  /\ \E k \in 1..Len(s) :
       /\ \/ k = 1
          \/ /\ k - 2 <= 61
             /\ AllIn(s, 2, k - 1, GceBodyChars)
             /\ s[k] \in GceEndChars
       /\ AtDollar(s, k)

\* ------------------------------------------------------------------------
\* String literals of the program.
sTrue == <<"t","r","u","e">>
sFalse == <<"f","a","l","s","e">>
sEmpty == << >>
ConfigFileName ==
  <<"s","p","i","n","n","a","k","e","r","_","c","o","n","f","i","g",
    ".","c","f","g">>

\* Python truth values as the methods return them (None for no return).
PyBool(b) == IF b THEN "True" ELSE "False"
\* x and y
PyAnd(x, y) == IF x = "True" THEN y ELSE x

\* dict.get(name, default)
Get(b, name, default) == IF name \in DOMAIN b THEN b[name] ELSE default

\* os.path.join(a, b)
PathJoin(a, b) ==
  IF Len(b) > 0 /\ b[1] = "/" THEN b
  ELSE IF Len(a) = 0 \/ a[Len(a)] = "/" THEN a \o b
  ELSE a \o <<"/">> \o b

\* os.path.exists(path): fs maps every existing path to its st_mode.
PathExists(fs, path) == path \in DOMAIN fs

\* x & y on non-negative integers.
RECURSIVE BitAnd(_, _)
BitAnd(x, y) ==
  IF x = 0 \/ y = 0 THEN 0
  ELSE (x % 2) * (y % 2) + 2 * BitAnd(x \div 2, y \div 2)

OctChar(d) == <<"0","1","2","3","4","5","6","7">>[d + 1]
RECURSIVE OctDigits(_)
OctDigits(n) ==
  IF n < 8 THEN <<OctChar(n)>> ELSE Append(OctDigits(n \div 8), OctChar(n % 8))
\* '%03o' % n
FormatOct3(n) ==
  LET d == OctDigits(n)
  IN  IF Len(d) >= 3 THEN d ELSE [i \in 1..(3 - Len(d)) |-> "0"] \o d

\* An error string: the format template, the constant texts and the
\* run-time values that format() puts into it.
Msg(fmt, texts, values) == [fmt |-> fmt, texts |-> texts, values |-> values]

AwsKeyRegex == "^[/a-zA-Z0-9]+$"
GceNameRegex == "^[a-z]([-a-z0-9]{0,61}[a-z0-9])?$"
AccountNameRegex == "^[-_a-zA-Z0-9]+$"
ComputeScope == "https://www.googleapis.com/auth/compute"

MissingMsg(name) == Msg("Missing \"{name}\".", <<name>>, << >>)
InvalidValueMsg(name, value) ==
  Msg("{name}=\"{value}\" is not valid. Must be \"true\" or \"false\".",
      <<name>>, <<value>>)
NoAddressMsg(name) ==
  Msg("No address provided for \"{name}\".", <<name>>, << >>)
\* The template spells the literal text name=, so only value is substituted.
MalformedAddressMsg(name, value) ==
  Msg("name=\"{value}\" is not in <host>[:<port>][/path] form.",
      << >>, <<value>>)
MissingScopeMsg(scope) ==
  Msg("Missing required scope \"{scope}\".", <<scope>>, << >>)
AwsAccessKeyMsg ==
  Msg("AWS_ACCESS_KEY does not look like {regex}.", <<AwsKeyRegex>>, << >>)
AwsSecretKeyMsg ==
  Msg("AWS_SECRET does not look like {regex}.", <<AwsKeyRegex>>, << >>)
ManagedProjectIdMsg(id) ==
  Msg("GOOGLE_MANAGED_PROJECT_ID=\"{id}\" does not look like {regex}.",
      <<GceNameRegex>>, <<id>>)
CredentialRequiredMsg(mid, pid) ==
  Msg("GOOGLE_JSON_CREDENTIAL_PATH is required because GOOGLE_MANAGED_PROJECT_ID=\"{mid}\" is not this project \"{pid}\".",
      << >>, <<mid, pid>>)
CredentialMissingMsg(path) ==
  Msg("GOOGLE_JSON_CREDENTIAL_PATH=\"{path}\" does not exist.",
      << >>, <<path>>)
AccountNameMsg(value) ==
  Msg("GOOGLE_ACCOUNT_NAME=\"{value}\" does not look like {regex}.",
      <<AccountNameRegex>>, <<value>>)
DockerRepositoryMsg ==
  Msg("DOCKER_ENABED but DOCKER_TARGET_REPOSITORY is not provided.",
      << >>, << >>)
JenkinsUsernameMsg ==
  Msg("JENKINS_ADDRESS is provided, but not JENKINS_USERNAME.", << >>, << >>)
InsecureMsg(path, mode) ==
  Msg("\"{path}\" should not have non-owner access. Mode is {mode}.",
      << >>, <<path, mode>>)

\* Outcome of a method call: the error list afterwards and either the value
\* returned or the exception that left the method.
Return(errs, ret) == [errors |-> errs, ret |-> ret, exc |-> "none"]
Raise(errs, exc) == [errors |-> errs, ret |-> "None", exc |-> exc]

\* ------------------------------------------------------------------------
\* The checks.

\* verify_true_false(name).  The failure path appends to self._errors, an
\* attribute the instance does not have (the list is self.__errors), so the
\* append raises AttributeError before anything is recorded.
VerifyTrueFalse(b, errs, name) ==
  IF name \notin DOMAIN b
    THEN Return(Append(errs, MissingMsg(name)), "False")
  ELSE IF b[name] \in {sTrue, sFalse}
    THEN Return(errs, "True")
  ELSE Raise(errs, "AttributeError")

\* Variant: an empty value passes whether or not the address is required.
VerifyHostPort_IgnoreRequired(b, errs, name, required) ==
  IF name \notin DOMAIN b
    THEN Return(Append(errs, MissingMsg(name)), "False")
  ELSE IF b[name] = sEmpty
    THEN Return(errs, "True")
  ELSE IF MatchAddress(b[name])
    THEN Return(errs, "True")
  ELSE Return(Append(errs, MalformedAddressMsg(name, b[name])), "False")

\* verify_host_port(name, required)
VerifyHostPort(b, errs, name, required) ==
  IF name \notin DOMAIN b
    THEN Return(Append(errs, MissingMsg(name)), "False")
  ELSE IF b[name] = sEmpty
    THEN IF ~required
           THEN Return(errs, "True")
           ELSE Return(Append(errs, NoAddressMsg(name)), "False")
  ELSE IF MatchAddress(b[name])
    THEN Return(errs, "True")
  ELSE Return(Append(errs, MalformedAddressMsg(name, b[name])), "False")

\* The metadata server as the process sees it: whether it runs on GCE, the
\* project-id response, the service-accounts listing (status code and the
\* lines of its body) and, per account, whether the scopes response contains
\* the required scope (have.find(scope) >= 0).

\* account[0:-1] when the line ends in '/'
StripSlash(account) ==
  IF account[Len(account)] = "/"
    THEN SubSeq(account, 1, Len(account) - 1)
    ELSE account

\* os.path.basename(p)
Basename(p) ==
  LET slashes == {i \in 1..Len(p) : p[i] = "/"}
      last_slash == IF slashes = {} THEN 0
                    ELSE CHOOSE i \in slashes : \A j \in slashes : j <= i
  IN  SubSeq(p, last_slash + 1, Len(p))

\* verify_gce_scopes()
VerifyGceScopes(meta, errs) ==
  IF ~meta.on_gce THEN Return(errs, "None")
  ELSE
    LET lines == IF meta.accounts_code # 200 THEN << >> ELSE meta.accounts
        listed == {i \in 1..Len(lines) : lines[i] # sEmpty}
        found == \E i \in listed :
                   LET account == Basename(StripSlash(lines[i]))
                   IN  account \in DOMAIN meta.scopes /\ meta.scopes[account]
    IN  IF found THEN Return(errs, "None")
        ELSE Return(Append(errs, MissingScopeMsg(ComputeScope)), "None")

\* fetch_or_die(url): the content of a 200 response, otherwise the process
\* is terminated.
FetchOrDie(response) ==
  IF response.code = 200
    THEN [died |-> FALSE, content |-> response.content]
    ELSE [died |-> TRUE, content |-> sEmpty]

\* Variant: the key messages carry the rejected value.
VerifyAwsProvider_EchoValue(b, errs) ==
  LET tf == VerifyTrueFalse(b, errs, "AWS_ENABLED")
  IN  IF tf.exc # "none" THEN tf
      ELSE IF tf.ret # "True" THEN Return(tf.errors, "False")
      ELSE IF b["AWS_ENABLED"] # sTrue THEN Return(tf.errors, "True")
      ELSE
        LET access == Get(b, "AWS_ACCESS_KEY", sEmpty)
            secret == Get(b, "AWS_SECRET_KEY", sEmpty)
            e1 == IF ~MatchAwsKey(access)
                    THEN Append(tf.errors,
                                [AwsAccessKeyMsg EXCEPT !.values = <<access>>])
                    ELSE tf.errors
            e2 == IF ~MatchAwsKey(secret)
                    THEN Append(e1, [AwsSecretKeyMsg EXCEPT !.values = <<secret>>])
                    ELSE e1
        IN  Return(e2, PyBool(MatchAwsKey(access) /\ MatchAwsKey(secret)))

\* verify_aws_provider()
VerifyAwsProvider(b, errs) ==
  LET tf == VerifyTrueFalse(b, errs, "AWS_ENABLED")
  IN  IF tf.exc # "none" THEN tf
      ELSE IF tf.ret # "True" THEN Return(tf.errors, "False")
      ELSE IF b["AWS_ENABLED"] # sTrue THEN Return(tf.errors, "True")
      ELSE
        LET bad_access == ~MatchAwsKey(Get(b, "AWS_ACCESS_KEY", sEmpty))
            bad_secret == ~MatchAwsKey(Get(b, "AWS_SECRET_KEY", sEmpty))
            e1 == IF bad_access THEN Append(tf.errors, AwsAccessKeyMsg)
                  ELSE tf.errors
            e2 == IF bad_secret THEN Append(e1, AwsSecretKeyMsg) ELSE e1
        IN  Return(e2, PyBool(~bad_access /\ ~bad_secret))

\* Variant: a credential path is demanded for every managed project id,
\* also when it names this project.
VerifyGceProvider_AlwaysCredential(b, fs, meta, errs) ==
  LET fetched == FetchOrDie(meta.project_id)
  IN  IF fetched.died THEN Raise(errs, "SystemExit")
      ELSE
        LET project_id == fetched.content
            managed_project_id == Get(b, "GOOGLE_MANAGED_PROJECT_ID", sEmpty)
            path == Get(b, "GOOGLE_JSON_CREDENTIAL_PATH", sEmpty)
            account_name == Get(b, "GOOGLE_ACCOUNT_NAME", sEmpty)
            bad_id == managed_project_id # sEmpty
                      /\ ~MatchGceName(managed_project_id)
            other_project == managed_project_id # sEmpty
            no_path == other_project /\ path = sEmpty
            no_file == other_project /\ path # sEmpty /\ ~PathExists(fs, path)
            bad_account == ~MatchAccountName(account_name)
            e1 == IF bad_id
                    THEN Append(errs, ManagedProjectIdMsg(managed_project_id))
                    ELSE errs
            e2 == IF no_path
                    THEN Append(e1, CredentialRequiredMsg(managed_project_id,
                                                          project_id))
                  ELSE IF no_file THEN Append(e1, CredentialMissingMsg(path))
                  ELSE e1
            e3 == IF bad_account THEN Append(e2, AccountNameMsg(account_name))
                  ELSE e2
        IN  Return(e3, PyBool(~bad_id /\ ~no_path /\ ~no_file /\ ~bad_account))

\* verify_gce_provider()
VerifyGceProvider(b, fs, meta, errs) ==
  LET fetched == FetchOrDie(meta.project_id)
  IN  IF fetched.died THEN Raise(errs, "SystemExit")
      ELSE
        LET project_id == fetched.content
            managed_project_id == Get(b, "GOOGLE_MANAGED_PROJECT_ID", sEmpty)
            path == Get(b, "GOOGLE_JSON_CREDENTIAL_PATH", sEmpty)
            account_name == Get(b, "GOOGLE_ACCOUNT_NAME", sEmpty)
            bad_id == managed_project_id # sEmpty
                      /\ ~MatchGceName(managed_project_id)
            other_project == managed_project_id # sEmpty
                             /\ managed_project_id # project_id
            no_path == other_project /\ path = sEmpty
            no_file == other_project /\ path # sEmpty /\ ~PathExists(fs, path)
            bad_account == ~MatchAccountName(account_name)
            e1 == IF bad_id
                    THEN Append(errs, ManagedProjectIdMsg(managed_project_id))
                    ELSE errs
            e2 == IF no_path
                    THEN Append(e1, CredentialRequiredMsg(managed_project_id,
                                                          project_id))
                  ELSE IF no_file THEN Append(e1, CredentialMissingMsg(path))
                  ELSE e1
            e3 == IF bad_account THEN Append(e2, AccountNameMsg(account_name))
                  ELSE e2
        IN  Return(e3, PyBool(~bad_id /\ ~no_path /\ ~no_file /\ ~bad_account))

\* verify_docker().  ok is only cleared by the two address checks and by the
\* enabled-without-repository case; the result of verify_true_false is used
\* as a condition and not folded into ok.
VerifyDocker(b, errs) ==
  LET address == VerifyHostPort(b, errs, "DOCKER_ADDRESS", FALSE)
      repository == VerifyHostPort(b, address.errors,
                                   "DOCKER_TARGET_REPOSITORY", FALSE)
      ok == PyAnd(repository.ret, address.ret)
      tf == VerifyTrueFalse(b, repository.errors, "DOCKER_ENABLED")
  IN  IF tf.exc # "none" THEN tf
      ELSE IF /\ tf.ret = "True"
              /\ b["DOCKER_ENABLED"] = sTrue
              /\ Get(b, "DOCKER_TARGET_REPOSITORY", sEmpty) = sEmpty
        THEN Return(Append(tf.errors, DockerRepositoryMsg), "False")
      ELSE Return(tf.errors, ok)

\* verify_jenkins(): no return statement, so the caller receives None.
VerifyJenkins(b, errs) ==
  LET address == VerifyHostPort(b, errs, "JENKINS_ADDRESS", FALSE)
  IN  IF /\ Get(b, "JENKINS_ADDRESS", sEmpty) # sEmpty
         /\ Get(b, "JENKINS_USERNAME", sEmpty) = sEmpty
        THEN Return(Append(address.errors, JenkinsUsernameMsg), "None")
        ELSE Return(address.errors, "None")

\* Variant: only the "other" permission bits (07) are inspected.
VerifyUserAccessOnly_OtherBitsOnly(fs, errs, path) ==
  IF ~PathExists(fs, path) THEN Return(errs, "True")
  ELSE IF BitAnd(fs[path], 7) # 0
    THEN Return(Append(errs,
                       InsecureMsg(path, FormatOct3(BitAnd(fs[path], 4095)))),
                "False")
  ELSE Return(errs, "True")

\* verify_user_access_only(path): stat.st_mode & 077, mode shown as
\* '%03o' % (stat.st_mode & 0xfff).
VerifyUserAccessOnly(fs, errs, path) ==
  IF ~PathExists(fs, path) THEN Return(errs, "True")
  ELSE IF BitAnd(fs[path], 63) # 0
    THEN Return(Append(errs,
                       InsecureMsg(path, FormatOct3(BitAnd(fs[path], 4095)))),
                "False")
  ELSE Return(errs, "True")

\* verify_security()
VerifySecurity(b, fs, config_dir, errs) ==
  LET credential == VerifyUserAccessOnly(
                      fs, errs, Get(b, "GOOGLE_JSON_CREDENTIAL_PATH", sEmpty))
      config == VerifyUserAccessOnly(
                  fs, credential.errors, PathJoin(config_dir, ConfigFileName))
  IN  Return(config.errors, PyAnd(config.ret, credential.ret))

\* Variant: a single recorded error is tolerated.
ValidateResult_TolerateOne(errs) == PyBool(Len(errs) <= 1)

\* The tail of validate(): the result is decided by the error list alone.
ValidateResult(errs) == PyBool(errs = << >>)

\* Variant: the boolean itself is handed to sys.exit.
MainExitCode_ResultAsCode(result) == IF result = "True" THEN 1 ELSE 0

\* sys.exit(0 if ValidateConfig().validate() else -1)
MainExitCode(result) == IF result = "True" THEN 0 ELSE -1

\* The status the parent process observes for sys.exit(code): the low 8 bits.
ExitStatus(code) == code % 256

\* ------------------------------------------------------------------------
\* Inputs: the bindings the loader produced, the filesystem and the metadata
\* server.  One group of related keys varies at a time; the other keys keep
\* a value that passes every check.

Keys == {"AWS_ENABLED", "AWS_ACCESS_KEY", "AWS_SECRET_KEY",
         "DOCKER_ADDRESS", "DOCKER_TARGET_REPOSITORY", "DOCKER_ENABLED",
         "JENKINS_ADDRESS", "JENKINS_USERNAME",
         "GOOGLE_MANAGED_PROJECT_ID", "GOOGLE_JSON_CREDENTIAL_PATH",
         "GOOGLE_ACCOUNT_NAME"}

Unset == [present |-> FALSE, value |-> sEmpty]
Bound(v) == [present |-> TRUE, value |-> v]
Choices(values) == {Unset} \cup {Bound(v) : v \in values}

FlagValues == {sTrue, sFalse, sEmpty, <<"y","e","s">>}
AddressValues == {sEmpty, <<"h">>, <<"h",".","x",":","8","0","/","a","/","B">>,
                  <<"H">>, <<"h",":">>, <<"h",":","1","/">>, <<"h","\n">>}
AwsKeyValues == {sEmpty, <<"a","K","/","1">>, <<"a","-","b">>, <<"k","=">>}
UsernameValues == {sEmpty, <<"u">>}
ThisProject == <<"p","1">>
ProjectIdValues == {sEmpty, ThisProject, <<"p","-","2">>, <<"P">>,
                    [i \in 1..64 |-> "a"]}
CredentialPath == <<"/","k">>
CredentialPathValues == {sEmpty, CredentialPath}
AccountNameValues == {<<"a","c","c","t">>, <<"a"," ","b">>}

\* st_mode values: regular files 0600, 0640, 0604 and a setuid 04600.
ModeValues == {33152, 33184, 33156, 35200}
ConfigDir == <<"/","e","t","c">>
ConfigPath == PathJoin(ConfigDir, ConfigFileName)

KeyChoices(k) ==
  CASE k \in {"AWS_ENABLED", "DOCKER_ENABLED"} -> Choices(FlagValues)
    [] k \in {"DOCKER_ADDRESS", "DOCKER_TARGET_REPOSITORY", "JENKINS_ADDRESS"}
         -> Choices(AddressValues)
    [] k \in {"AWS_ACCESS_KEY", "AWS_SECRET_KEY"} -> Choices(AwsKeyValues)
    [] k = "JENKINS_USERNAME" -> Choices(UsernameValues)
    [] k = "GOOGLE_MANAGED_PROJECT_ID" -> Choices(ProjectIdValues)
    [] k = "GOOGLE_JSON_CREDENTIAL_PATH" -> Choices(CredentialPathValues)
    [] k = "GOOGLE_ACCOUNT_NAME" -> Choices(AccountNameValues)

PassingChoice(k) ==
  CASE k \in {"AWS_ENABLED", "DOCKER_ENABLED"} -> Bound(sFalse)
    [] k \in {"DOCKER_ADDRESS", "DOCKER_TARGET_REPOSITORY", "JENKINS_ADDRESS"}
         -> Bound(sEmpty)
    [] k = "GOOGLE_ACCOUNT_NAME" -> Bound(<<"a","c","c","t">>)
    [] OTHER -> Unset

Groups == {"scopes", "gce", "aws", "docker", "jenkins", "security"}
GroupKeys(g) ==
  CASE g = "scopes" -> {}
    [] g = "gce" -> {"GOOGLE_MANAGED_PROJECT_ID", "GOOGLE_JSON_CREDENTIAL_PATH",
                     "GOOGLE_ACCOUNT_NAME"}
    [] g = "aws" -> {"AWS_ENABLED", "AWS_ACCESS_KEY", "AWS_SECRET_KEY"}
    [] g = "docker" -> {"DOCKER_ADDRESS", "DOCKER_TARGET_REPOSITORY",
                        "DOCKER_ENABLED"}
    [] g = "jenkins" -> {"JENKINS_ADDRESS", "JENKINS_USERNAME"}
    [] g = "security" -> {"GOOGLE_JSON_CREDENTIAL_PATH"}

\* The mapping load_bindings() returns for a choice per key.
MakeBindings(choice) ==
  [k \in {x \in Keys : choice[x].present} |-> choice[k].value]

BindingsOf(g) ==
  LET ks == GroupKeys(g)
      all == UNION {KeyChoices(k) : k \in ks}
  IN  {MakeBindings([k \in Keys |-> IF k \in ks THEN c[k] ELSE PassingChoice(k)]) :
         c \in {d \in [ks -> all] : \A k \in ks : d[k] \in KeyChoices(k)}}

\* Filesystems: which of the two paths exist, and with which mode.
FileSystems(cred_modes, config_modes) ==
  {[p \in {q \in {CredentialPath, ConfigPath} : f[q] # 0} |-> f[p]] :
     f \in {h \in [{CredentialPath, ConfigPath} -> cred_modes \cup config_modes] :
              h[CredentialPath] \in cred_modes /\ h[ConfigPath] \in config_modes}}

FileSystemsOf(g) ==
  CASE g = "security" -> FileSystems(ModeValues \cup {0}, ModeValues \cup {0})
    [] g = "gce" -> FileSystems({0, 33152}, {33152})
    [] OTHER -> FileSystems({0}, {33152})

AccountLines == {sEmpty, <<"d","/">>, <<"r">>}
AccountNames == {<<"d">>, <<"r">>}
RECURSIVE SeqsUpTo(_, _)
SeqsUpTo(S, n) ==
  IF n = 0 THEN {<< >>}
  ELSE LET shorter == SeqsUpTo(S, n - 1)
       IN  shorter \cup {Append(q, x) : q \in shorter, x \in S}

OffGce ==
  [on_gce |-> FALSE, project_id |-> [code |-> 200, content |-> ThisProject],
   accounts_code |-> 200, accounts |-> << >>,
   scopes |-> [a \in AccountNames |-> FALSE]]

MetadataOf(g) ==
  CASE g = "scopes" ->
         {[OffGce EXCEPT !.on_gce = TRUE, !.accounts_code = c,
                         !.accounts = l, !.scopes = s] :
            c \in {200, 404}, l \in SeqsUpTo(AccountLines, MaxAccounts),
            s \in [AccountNames -> BOOLEAN]}
    [] g = "gce" ->
         {OffGce, [OffGce EXCEPT !.project_id = [code |-> 404, content |-> sEmpty]]}
    [] OTHER -> {OffGce}

\* ------------------------------------------------------------------------
\* State.
VARIABLES
  bindings,     \* self.__bindings
  config_dir,   \* self.__config_dir
  errors,       \* self.__errors
  fs,           \* existing paths and their st_mode
  metadata,     \* what the metadata server answers
  caller,       \* "main": the __main__ block; "library": code using the class
  euid,         \* os.geteuid()
  pc,           \* where the caller is
  ncalls,       \* calls made on the instance so far
  ran,          \* the checks the current validate() call has run, in order
  last,         \* the most recent method call and its outcome
  results,      \* the validate() calls that returned, in order
  entry,        \* the error list when the current validate() call began
  exit_status   \* <<status>> once the process has exited

vars == <<bindings, config_dir, errors, fs, metadata, caller, euid, pc, ncalls,
          ran, last, results, entry, exit_status>>

inputs == <<bindings, config_dir, fs, metadata, caller, euid>>

NoArgs == [name |-> "", required |-> FALSE, path |-> sEmpty]
NoCall == [op |-> "none", args |-> NoArgs, via |-> "caller", before |-> << >>,
           after |-> << >>, ret |-> "None", exc |-> "none"]

Init ==
  /\ \E g \in Groups :
       /\ bindings \in BindingsOf(g)
       /\ fs \in FileSystemsOf(g)
       /\ metadata \in MetadataOf(g)
  /\ config_dir = ConfigDir
  /\ \/ caller = "library" /\ euid = 0 /\ pc = "idle"
     \/ caller = "main" /\ euid \in {0, 1000} /\ pc = "start"
  /\ errors = << >>
  /\ ncalls = 0
  /\ ran = << >>
  /\ last = NoCall
  /\ results = << >>
  /\ entry = << >>
  /\ exit_status = << >>

\* ------------------------------------------------------------------------
\* Operations.

\* via: "caller" for a call made from outside the class, "validate" for a
\* check that validate() runs.
Record(op, args, out, via) ==
  [op |-> op, args |-> args, via |-> via, before |-> errors,
   after |-> out.errors, ret |-> out.ret, exc |-> out.exc]

\* Where control goes when a method finishes: on to normal, or out of the
\* call chain with the exception.
Leave(out, normal) ==
  pc' = CASE out.exc = "none" -> normal
          [] out.exc = "SystemExit" -> "died"
          [] OTHER -> "raised"

\* A method called directly on the instance by code using the class.
Call(op, args, out) ==
  /\ caller = "library"
  /\ pc = "idle"
  /\ ncalls < MaxCalls
  /\ ncalls' = ncalls + 1
  /\ errors' = out.errors
  /\ last' = Record(op, args, out, "caller")
  /\ Leave(out, "idle")
  /\ UNCHANGED <<inputs, ran, results, entry, exit_status>>

CallVerifyTrueFalse ==
  \E name \in {"AWS_ENABLED", "DOCKER_ENABLED"} :
    Call("verify_true_false", [NoArgs EXCEPT !.name = name],
         VerifyTrueFalse(bindings, errors, name))

CallVerifyHostPort ==
  \E name \in {"DOCKER_ADDRESS", "DOCKER_TARGET_REPOSITORY", "JENKINS_ADDRESS"},
     required \in BOOLEAN :
    Call("verify_host_port",
         [NoArgs EXCEPT !.name = name, !.required = required],
         VerifyHostPort(bindings, errors, name, required))

CallVerifyGceScopes ==
  Call("verify_gce_scopes", NoArgs, VerifyGceScopes(metadata, errors))

CallVerifyGceProvider ==
  Call("verify_gce_provider", NoArgs,
       VerifyGceProvider(bindings, fs, metadata, errors))

CallVerifyAwsProvider ==
  Call("verify_aws_provider", NoArgs, VerifyAwsProvider(bindings, errors))

CallVerifyDocker ==
  Call("verify_docker", NoArgs, VerifyDocker(bindings, errors))

CallVerifyJenkins ==
  Call("verify_jenkins", NoArgs, VerifyJenkins(bindings, errors))

CallVerifyUserAccessOnly ==
  \E path \in {sEmpty, CredentialPath, ConfigPath} :
    Call("verify_user_access_only", [NoArgs EXCEPT !.path = path],
         VerifyUserAccessOnly(fs, errors, path))

CallVerifySecurity ==
  Call("verify_security", NoArgs,
       VerifySecurity(bindings, fs, config_dir, errors))

\* validate(), one step per statement of its body.
ValidateBegin ==
  /\ pc = "idle"
  /\ ncalls < MaxCalls
  /\ ncalls' = ncalls + 1
  /\ pc' = "verify_gce_scopes"
  /\ ran' = << >>
  /\ entry' = errors
  /\ UNCHANGED <<inputs, errors, last, results, exit_status>>

Check(op, out, next) ==
  /\ pc = op
  /\ errors' = out.errors
  /\ ran' = Append(ran, op)
  /\ last' = Record(op, NoArgs, out, "validate")
  /\ Leave(out, next)
  /\ UNCHANGED <<inputs, ncalls, results, entry, exit_status>>

ValidateGceScopes ==
  Check("verify_gce_scopes", VerifyGceScopes(metadata, errors),
        "verify_gce_provider")

ValidateGceProvider ==
  Check("verify_gce_provider",
        VerifyGceProvider(bindings, fs, metadata, errors),
        "verify_aws_provider")

ValidateAwsProvider ==
  Check("verify_aws_provider", VerifyAwsProvider(bindings, errors),
        "verify_docker")

ValidateDocker ==
  Check("verify_docker", VerifyDocker(bindings, errors), "verify_jenkins")

ValidateJenkins ==
  Check("verify_jenkins", VerifyJenkins(bindings, errors), "verify_security")

ValidateSecurity ==
  Check("verify_security", VerifySecurity(bindings, fs, config_dir, errors),
        "report")

ValidateReturn ==
  /\ pc = "report"
  /\ results' = Append(results, [ret |-> ValidateResult(errors), ran |-> ran,
                                 before |-> entry, after |-> errors])
  /\ last' = [op |-> "validate", args |-> NoArgs, via |-> "caller",
              before |-> entry, after |-> errors,
              ret |-> ValidateResult(errors), exc |-> "none"]
  /\ pc' = IF caller = "main" THEN "returned" ELSE "idle"
  /\ UNCHANGED <<inputs, errors, ncalls, ran, entry, exit_status>>

\* The code using the class handles the exception and carries on.
CatchException ==
  /\ caller = "library"
  /\ pc = "raised"
  /\ pc' = "idle"
  /\ UNCHANGED <<inputs, errors, ncalls, ran, last, results, entry, exit_status>>

\* __main__: the root check, then the instance is constructed.
MainRootCheck ==
  /\ pc = "start"
  /\ IF euid # 0
       THEN /\ exit_status' = <<ExitStatus(-1)>>
            /\ pc' = "exited"
            /\ UNCHANGED errors
       ELSE /\ errors' = << >>
            /\ pc' = "idle"
            /\ UNCHANGED exit_status
  /\ UNCHANGED <<inputs, ncalls, ran, last, results, entry>>

MainExit ==
  /\ caller = "main"
  /\ pc = "returned"
  /\ exit_status' = <<ExitStatus(MainExitCode(results[Len(results)].ret))>>
  /\ pc' = "exited"
  /\ UNCHANGED <<inputs, errors, ncalls, ran, last, results, entry>>

\* An exception nobody handles ends the interpreter with status 1.
MainUncaught ==
  /\ caller = "main"
  /\ pc = "raised"
  /\ exit_status' = <<1>>
  /\ pc' = "exited"
  /\ UNCHANGED <<inputs, errors, ncalls, ran, last, results, entry>>

\* fetch_or_die ended the process.
Die ==
  /\ pc = "died"
  /\ \E status \in {1, 255} : exit_status' = <<status>>
  /\ pc' = "exited"
  /\ UNCHANGED <<inputs, errors, ncalls, ran, last, results, entry>>

Next ==
  \/ CallVerifyTrueFalse
  \/ CallVerifyHostPort
  \/ CallVerifyGceScopes
  \/ CallVerifyGceProvider
  \/ CallVerifyAwsProvider
  \/ CallVerifyDocker
  \/ CallVerifyJenkins
  \/ CallVerifyUserAccessOnly
  \/ CallVerifySecurity
  \/ ValidateBegin
  \/ ValidateGceScopes
  \/ ValidateGceProvider
  \/ ValidateAwsProvider
  \/ ValidateDocker
  \/ ValidateJenkins
  \/ ValidateSecurity
  \/ ValidateReturn
  \/ CatchException
  \/ MainRootCheck
  \/ MainExit
  \/ MainUncaught
  \/ Die

Spec == Init /\ [][Next]_vars

\* ------------------------------------------------------------------------
\* Properties.

IsPrefix(s, t) == Len(s) <= Len(t) /\ SubSeq(t, 1, Len(s)) = s
\* The errors the most recent call added to the list.
Appended(c) == SubSeq(c.after, Len(c.before) + 1, Len(c.after))
Count(q, x) == Cardinality({i \in 1..Len(q) : q[i] = x})
Returned(c, ret) == c.exc = "none" /\ c.ret = ret

SixChecks == <<"verify_gce_scopes", "verify_gce_provider", "verify_aws_provider",
               "verify_docker", "verify_jenkins", "verify_security">>

\* C1: validate() returns true exactly when the error list is empty after the
\* six checks have run, and the process started by __main__ exits with
\* status zero exactly when validate() returned true.
C1_ResultAndExitStatus ==
  /\ \A i \in 1..Len(results) :
       /\ results[i].ran = SixChecks
       /\ results[i].ret = "True" <=> results[i].after = << >>
  /\ (caller = "main" /\ pc = "exited") =>
       (exit_status = <<0>> <=>
          (results # << >> /\ results[Len(results)].ret = "True"))

C1_Witness ==
  /\ caller = "main"
  /\ pc = "exited"
  /\ results # << >>
  /\ results[1].ret = "False"
  /\ exit_status = <<255>>

\* C2 (as claimed): once the project id has been fetched, validate() runs all
\* six checks in order, no recorded failure or invalid AWS_ENABLED or
\* DOCKER_ENABLED value skips a later check, and no check raises to the
\* caller of validate().
C2_AllSixChecksRun ==
  /\ IsPrefix(ran, SixChecks)
  /\ pc = "report" => ran = SixChecks
  /\ ~(pc = "raised" /\ last.via = "validate")

\* C3 (as claimed): verify_true_false on a present name returns true without
\* appending when the value is "true" or "false", and otherwise appends one
\* invalid-value error and returns false.
C3_TrueFalseInvalidValue ==
  (last.op = "verify_true_false" /\ last.args.name \in DOMAIN bindings) =>
     LET value == bindings[last.args.name]
     IN  IF value \in {sTrue, sFalse}
           THEN Returned(last, "True") /\ last.after = last.before
           ELSE /\ Returned(last, "False")
                /\ Appended(last) = <<InvalidValueMsg(last.args.name, value)>>

\* C4 (as claimed, read on the calls that return): a check whose required
\* field is absent appends exactly one missing-field error for it and
\* returns false.
C4_MissingField ==
  /\ (last.op \in {"verify_true_false", "verify_host_port"}
        /\ last.args.name \notin DOMAIN bindings) =>
       /\ Returned(last, "False")
       /\ Appended(last) = <<MissingMsg(last.args.name)>>
  /\ (last.op = "verify_aws_provider" /\ "AWS_ENABLED" \notin DOMAIN bindings) =>
       /\ Returned(last, "False")
       /\ Appended(last) = <<MissingMsg("AWS_ENABLED")>>
  /\ (last.op = "verify_docker" /\ last.exc = "none") =>
       \A k \in {"DOCKER_ADDRESS", "DOCKER_TARGET_REPOSITORY", "DOCKER_ENABLED"} :
         k \notin DOMAIN bindings =>
           /\ Returned(last, "False")
           /\ Count(Appended(last), MissingMsg(k)) = 1

\* C5 (as claimed, read on the calls that return): verify_docker returns true
\* exactly when both address checks pass, DOCKER_ENABLED is a valid flag and
\* it is not enabled without a target repository; equivalently exactly when
\* it appended no error.
C5_DockerIsConjunction ==
  (last.op = "verify_docker" /\ last.exc = "none") =>
    LET address_ok ==
          VerifyHostPort(bindings, << >>, "DOCKER_ADDRESS", FALSE).ret = "True"
        repository_ok ==
          VerifyHostPort(bindings, << >>, "DOCKER_TARGET_REPOSITORY", FALSE).ret
            = "True"
        flag_ok == /\ "DOCKER_ENABLED" \in DOMAIN bindings
                   /\ bindings["DOCKER_ENABLED"] \in {sTrue, sFalse}
        enabled_without_repository ==
          /\ Get(bindings, "DOCKER_ENABLED", sEmpty) = sTrue
          /\ Get(bindings, "DOCKER_TARGET_REPOSITORY", sEmpty) = sEmpty
    IN  /\ last.ret = "True" <=>
             (address_ok /\ repository_ok /\ flag_ok
                /\ ~enabled_without_repository)
        /\ last.ret = "True" <=> Appended(last) = << >>

\* C6 (as claimed): verify_aws_provider returns true without key checks
\* whenever AWS_ENABLED is present and is not "true"; with "true" it appends
\* one fixed message per key that fails the pattern and returns true exactly
\* when both keys match.
AwsKeyErrors ==
  (IF MatchAwsKey(Get(bindings, "AWS_ACCESS_KEY", sEmpty))
     THEN << >> ELSE <<AwsAccessKeyMsg>>)
  \o (IF MatchAwsKey(Get(bindings, "AWS_SECRET_KEY", sEmpty))
        THEN << >> ELSE <<AwsSecretKeyMsg>>)

AwsEnabledCase ==
  /\ Appended(last) = AwsKeyErrors
  /\ \A i \in 1..Len(Appended(last)) : Appended(last)[i].values = << >>
  /\ last.exc = "none"
  /\ last.ret = "True" <=>
       /\ MatchAwsKey(Get(bindings, "AWS_ACCESS_KEY", sEmpty))
       /\ MatchAwsKey(Get(bindings, "AWS_SECRET_KEY", sEmpty))

C6_AwsPresentNotTrue ==
  (last.op = "verify_aws_provider" /\ "AWS_ENABLED" \in DOMAIN bindings) =>
     IF bindings["AWS_ENABLED"] # sTrue
       THEN Returned(last, "True") /\ last.after = last.before
       ELSE AwsEnabledCase

\* C6 (amended): verify_aws_provider returns true without key checks when
\* AWS_ENABLED is "false"; with "true" it appends one fixed message per key
\* that fails the pattern, never carrying the key's value, and returns true
\* exactly when both keys match.
C6_AwsProvider ==
  (last.op = "verify_aws_provider" /\ "AWS_ENABLED" \in DOMAIN bindings) =>
     /\ bindings["AWS_ENABLED"] = sFalse =>
          Returned(last, "True") /\ last.after = last.before
     /\ bindings["AWS_ENABLED"] = sTrue => AwsEnabledCase

C6_Witness ==
  /\ last.op = "verify_aws_provider"
  /\ Get(bindings, "AWS_ENABLED", sEmpty) = sTrue
  /\ Get(bindings, "AWS_ACCESS_KEY", sEmpty) = <<"a","-","b">>
  /\ Get(bindings, "AWS_SECRET_KEY", sEmpty) = <<"k","=">>
  /\ Appended(last) = <<AwsAccessKeyMsg, AwsSecretKeyMsg>>
  /\ last.ret = "False"

\* C7: verify_host_port on a present name: an empty value passes without
\* appending when not required and appends one no-address error and fails
\* when required; a non-empty value passes without appending when it has the
\* host[:port][/path] form and otherwise appends one malformed-address error
\* and fails.
C7_HostPort ==
  (last.op = "verify_host_port" /\ last.args.name \in DOMAIN bindings) =>
     LET value == bindings[last.args.name]
         passes == IF value = sEmpty THEN ~last.args.required
                   ELSE MatchAddress(value)
     IN  /\ last.exc = "none"
         /\ passes => last.ret = "True" /\ last.after = last.before
         /\ ~passes =>
              /\ last.ret = "False"
              /\ Appended(last) =
                   <<IF value = sEmpty THEN NoAddressMsg(last.args.name)
                     ELSE MalformedAddressMsg(last.args.name, value)>>

C7_Witness ==
  /\ last.op = "verify_host_port"
  /\ last.args.name \in DOMAIN bindings
  /\ bindings[last.args.name] = sEmpty
  /\ last.args.required
  /\ last.ret = "False"
  /\ Len(Appended(last)) = 1

\* C8: verify_gce_provider with the project id fetched: a managed project id
\* that is set and differs from the fetched one yields a credential-path
\* error unless the credential path is set and exists; no such error appears
\* when the managed id is unset or equal; an absent or ill-formed account
\* name always yields an error; the call returns true exactly when it
\* appended nothing.
CredentialErrors(q) ==
  {i \in 1..Len(q) :
     q[i].fmt \in {CredentialRequiredMsg(sEmpty, sEmpty).fmt,
                   CredentialMissingMsg(sEmpty).fmt}}

C8_GceProvider ==
  (last.op = "verify_gce_provider" /\ last.exc = "none") =>
     LET managed == Get(bindings, "GOOGLE_MANAGED_PROJECT_ID", sEmpty)
         path == Get(bindings, "GOOGLE_JSON_CREDENTIAL_PATH", sEmpty)
         account == Get(bindings, "GOOGLE_ACCOUNT_NAME", sEmpty)
         differs == managed # sEmpty /\ managed # metadata.project_id.content
         path_ok == path # sEmpty /\ PathExists(fs, path)
         new == Appended(last)
     IN  /\ (differs /\ ~path_ok) => Cardinality(CredentialErrors(new)) = 1
         /\ (~differs \/ path_ok) => CredentialErrors(new) = {}
         /\ ~MatchAccountName(account) =>
              Count(new, AccountNameMsg(account)) = 1
         /\ last.ret = "True" <=> new = << >>

C8_Witness ==
  /\ last.op = "verify_gce_provider"
  /\ last.exc = "none"
  /\ Get(bindings, "GOOGLE_MANAGED_PROJECT_ID", sEmpty) = <<"p","-","2">>
  /\ "GOOGLE_JSON_CREDENTIAL_PATH" \notin DOMAIN bindings
  /\ Cardinality(CredentialErrors(Appended(last))) = 1
  /\ last.ret = "False"

\* C9: verify_user_access_only passes without appending for a path that does
\* not exist, and for an existing path fails with one insecure-permissions
\* error exactly when a group or other permission bit is set;
\* verify_security checks the credential path and the configuration file,
\* both every time, and returns true exactly when both pass.
GroupOrOtherBit(mode) == \E bit \in 0..5 : (mode \div 2^bit) % 2 = 1
Insecure(path) == PathExists(fs, path) /\ GroupOrOtherBit(fs[path])

C9_UserAccessOnly ==
  /\ last.op = "verify_user_access_only" =>
       /\ last.exc = "none"
       /\ last.ret = "False" <=> Insecure(last.args.path)
       /\ Len(Appended(last)) = IF Insecure(last.args.path) THEN 1 ELSE 0
       /\ \A i \in 1..Len(Appended(last)) :
            /\ Appended(last)[i].fmt = InsecureMsg(sEmpty, sEmpty).fmt
            /\ Appended(last)[i].values[1] = last.args.path
  /\ last.op = "verify_security" =>
       LET credential == Get(bindings, "GOOGLE_JSON_CREDENTIAL_PATH", sEmpty)
           failing == (IF Insecure(credential) THEN <<credential>> ELSE << >>)
                      \o (IF Insecure(ConfigPath) THEN <<ConfigPath>> ELSE << >>)
       IN  /\ last.exc = "none"
           /\ last.ret = "True" <=> failing = << >>
           /\ Len(Appended(last)) = Len(failing)
           /\ \A i \in 1..Len(failing) :
                Appended(last)[i].values[1] = failing[i]

C9_Witness ==
  /\ last.op = "verify_security"
  /\ Get(bindings, "GOOGLE_JSON_CREDENTIAL_PATH", sEmpty) = CredentialPath
  /\ PathExists(fs, CredentialPath) /\ fs[CredentialPath] = 33184
  /\ PathExists(fs, ConfigPath) /\ fs[ConfigPath] = 33156
  /\ Len(Appended(last)) = 2
  /\ last.ret = "False"

\* C10: two validate() calls in a row on one instance return the same
\* boolean, and the error list is never reset: each call keeps what the list
\* held when it began.
C10_ValidateTwice ==
  /\ \A i \in 1..Len(results) : IsPrefix(results[i].before, results[i].after)
  /\ \A i \in 1..(Len(results) - 1) :
       results[i + 1].before = results[i].after =>
         /\ results[i + 1].ret = results[i].ret
         /\ IsPrefix(results[i].after, results[i + 1].after)

C10_Witness ==
  /\ Len(results) >= 2
  /\ results[1].before = << >>
  /\ results[1].ret = "False"
  /\ results[2].before = results[1].after
  /\ results[2].ret = "False"
  /\ Len(results[2].after) = 2 * Len(results[1].after)

====
